---- MODULE Spec2Model ----
(***************************************************************************)
(* Model of the HMM localisation engine (src/PA6/HMM.py) on top of the     *)
(* dense matrix layer (src/06-HiddenMarkovModels/Matrix.py), of Matrix     *)
(* objects and their arrays as a heap (MatrixSpec), and of A* search       *)
(* (src/02-Mazeworld/astar_search.py, AstarSpec).  Spec is the engine.     *)
(*                                                                         *)
(* Numbers.  The program computes with floats; the model computes with     *)
(* exact non-negative rationals <<n, d>> in lowest terms, plus the two     *)
(* float specials numpy produces when a normalisation divides by zero:     *)
(* NaN (0/0) and Inf (x/0, x > 0).  A value whose numerator or denominator *)
(* would leave the model's number range is Huge; an operation whose        *)
(* result holds a Huge value is not taken (a bound of the model).          *)
(*                                                                         *)
(* Evaluation.  An operator that uses an argument more than once binds it  *)
(* first (CHOOSE r \in {body : x \in {argument}} : TRUE), so that the      *)
(* argument is computed once; the value is that of the body.               *)
(***************************************************************************)
EXTENDS Integers, Sequences, FiniteSets, TLC

\* ------------------------------------------------------------------ bounds
MaxLen == 2
MaxCalls == 2
MaxMagnitude == 1000000000

\* ------------------------------------------------------------- arithmetic
RECURSIVE GCD(_, _)
GCD(a0, b0) ==
    CHOOSE r \in {IF b = 0 THEN a ELSE GCD(b, a % b) : a \in {a0}, b \in {b0}} : TRUE

NaN == <<0, 0>>
Inf == <<1, 0>>
Huge == <<-1, 0>>
Zero == <<0, 1>>
One == <<1, 1>>

\* a * b on naturals, -1 when the product leaves the number range
Times(a0, b0) ==
    CHOOSE r \in {IF a < 0 \/ b < 0 THEN -1
                  ELSE IF a = 0 \/ b = 0 THEN 0
                  ELSE IF a > MaxMagnitude \div b THEN -1
                  ELSE a * b : a \in {a0}, b \in {b0}} : TRUE

\* the rational n / d (n >= 0, d > 0) in lowest terms
Rat(n, d) == CHOOSE r \in {<<n \div g, d \div g>> : g \in {GCD(n, d)}} : TRUE

\* <<n, d>>, or Huge when a part left the number range
Checked(n0, d0) ==
    CHOOSE r \in {IF n < 0 \/ d < 0 THEN Huge ELSE <<n, d>> :
                    n \in {n0}, d \in {d0}} : TRUE

\* (x + y) / den in lowest terms, or Huge when a part left the number range
SumOver(x0, y0, den0) ==
    CHOOSE r \in {IF x < 0 \/ y < 0 \/ den < 0 THEN Huge
                  ELSE IF x + y > MaxMagnitude THEN Huge
                  ELSE Rat(x + y, den) :
                    x \in {x0}, y \in {y0}, den \in {den0}} : TRUE

\* the product of two proper fractions, cross-reduced
MulFrac(a, b) ==
    CHOOSE r \in {Checked(Times(a[1] \div g1, b[1] \div g2),
                          Times(a[2] \div g2, b[2] \div g1)) :
                    g1 \in {GCD(a[1], b[2])}, g2 \in {GCD(b[1], a[2])}} : TRUE

\* the sum of two proper fractions over their least common denominator
AddFrac(a, b) ==
    CHOOSE r \in {SumOver(Times(a[1], b[2] \div g), Times(b[1], a[2] \div g),
                          Times(a[2], b[2] \div g)) :
                    g \in {GCD(a[2], b[2])}} : TRUE

\* float product
RMul(a0, b0) ==
    CHOOSE r \in
        {IF a = Huge \/ b = Huge THEN Huge
         ELSE IF a = NaN \/ b = NaN THEN NaN
         ELSE IF a = Inf \/ b = Inf
              THEN (IF a = Zero \/ b = Zero THEN NaN ELSE Inf)
         ELSE MulFrac(a, b) : a \in {a0}, b \in {b0}} : TRUE

\* float sum
RAdd(a0, b0) ==
    CHOOSE r \in
        {IF a = Huge \/ b = Huge THEN Huge
         ELSE IF a = NaN \/ b = NaN THEN NaN
         ELSE IF a = Inf \/ b = Inf THEN Inf
         ELSE IF a = Zero THEN b
         ELSE IF b = Zero THEN a
         ELSE AddFrac(a, b) : a \in {a0}, b \in {b0}} : TRUE

\* float quotient a / b as numpy computes it (no exception on a zero divisor)
RDiv(a0, b0) ==
    CHOOSE r \in
        {IF a = Huge \/ b = Huge THEN Huge
         ELSE IF a = NaN \/ b = NaN THEN NaN
         ELSE IF b = Zero THEN (IF a = Zero THEN NaN ELSE Inf)
         ELSE IF b = Inf THEN (IF a = Inf THEN NaN ELSE Zero)
         ELSE IF a = Inf THEN Inf
         ELSE MulFrac(a, <<b[2], b[1]>>) : a \in {a0}, b \in {b0}} : TRUE

\* n1/d1 < n2/d2 for proper fractions, without forming the cross products
RECURSIVE LessFrac(_, _, _, _)
LessFrac(n1, d1, n2, d2) ==
    CHOOSE r \in
        {IF q1 # q2 THEN q1 < q2
         ELSE IF r2 = 0 THEN FALSE
         ELSE IF r1 = 0 THEN TRUE
         ELSE LessFrac(d2, r2, d1, r1) :
            q1 \in {n1 \div d1}, q2 \in {n2 \div d2},
            r1 \in {n1 % d1}, r2 \in {n2 % d2}} : TRUE

\* float comparison a < b: every comparison with NaN is false
RLess(a0, b0) ==
    CHOOSE r \in
        {IF a = NaN \/ b = NaN THEN FALSE
         ELSE IF b = Huge THEN a # Huge
         ELSE IF a = Huge THEN FALSE
         ELSE IF a = Inf THEN FALSE
         ELSE IF b = Inf THEN TRUE
         ELSE LessFrac(a[1], a[2], b[1], b[2]) : a \in {a0}, b \in {b0}} : TRUE

\* ----------------------------------------------------------- matrix layer
\* A Matrix object: rows, cols and the rows x cols array data, zero-indexed.
Matrix(rows, cols, data) == [rows |-> rows, cols |-> cols, data |-> data]

\* Matrix(rows, cols) without a source, Matrix.zeros: all cells 0.0
zeros(rows, cols) ==
    Matrix(rows, cols, [i \in 0..(rows - 1) |-> [j \in 0..(cols - 1) |-> Zero]])

ones(rows, cols) ==
    Matrix(rows, cols, [i \in 0..(rows - 1) |-> [j \in 0..(cols - 1) |-> One]])

\* Matrix.copy: a new object holding the same values
copy(matrix) ==
    CHOOSE r \in
        {Matrix(m.rows, m.cols,
                [i \in 0..(m.rows - 1) |-> [j \in 0..(m.cols - 1) |-> m.data[i][j]]]) :
            m \in {matrix}} : TRUE

\* matrix[row, col]
getitem(matrix, row, col) == matrix.data[row][col]

\* matrix[row, col] = value
setitem(matrix, row, col, value) ==
    [matrix EXCEPT !.data[row][col] = value]

transpose(self) ==
    CHOOSE r \in
        {Matrix(m.cols, m.rows,
                [i \in 0..(m.cols - 1) |-> [j \in 0..(m.rows - 1) |-> m.data[j][i]]]) :
            m \in {self}} : TRUE

\* sum of f[lo], ..., f[hi] taken in index order
RECURSIVE SumRange(_, _, _)
SumRange(f0, lo, hi) ==
    CHOOSE r \in {IF hi < lo THEN Zero ELSE RAdd(SumRange(f, lo, hi - 1), f[hi]) :
                    f \in {f0}} : TRUE

\* np.dot of an (r x k) and a (k x c) array
dot(a0, b0) ==
    CHOOSE r \in
        {Matrix(a.rows, b.cols,
                [i \in 0..(a.rows - 1) |-> [j \in 0..(b.cols - 1) |->
                    SumRange([k \in 0..(a.cols - 1) |-> RMul(a.data[i][k], b.data[k][j])],
                             0, a.cols - 1)]]) :
            a \in {a0}, b \in {b0}} : TRUE

\* Matrix.__mul__ with a Matrix operand raises ValueError on these shapes
\* (a 1 x 1 operand is handed to np.dot whatever the shape of self)
mulRaises(self, other) ==
    IF other.cols = 1 /\ other.rows = 1 THEN self.cols # 1
    ELSE self.cols # other.rows

\* Matrix.__mul__ with a Matrix operand of a compatible shape
mul(self, other) == dot(self, other)

\* Matrix.multiply: the element-wise product of two matrices of one shape
multiply(m1, m2) ==
    CHOOSE r \in
        {Matrix(a.rows, a.cols,
                [i \in 0..(a.rows - 1) |-> [j \in 0..(a.cols - 1) |->
                    RMul(a.data[i][j], b.data[i][j])]]) :
            a \in {m1}, b \in {m2}} : TRUE

\* matrix.data.sum(axis=0, keepdims=True): one sum per column
ColumnSums(matrix) ==
    CHOOSE r \in
        {[j \in 0..(m.cols - 1) |->
            SumRange([i \in 0..(m.rows - 1) |-> m.data[i][j]], 0, m.rows - 1)] :
            m \in {matrix}} : TRUE

\* Matrix.normalize(matrix) with the default axis=0: every entry divided by
\* the sum of its column; the object keeps its shape.
DivideColumns(m, sums0) ==
    CHOOSE r \in
        {Matrix(m.rows, m.cols,
                [i \in 0..(m.rows - 1) |-> [j \in 0..(m.cols - 1) |->
                    RDiv(m.data[i][j], sums[j])]]) :
            sums \in {sums0}} : TRUE

\* mutant of normalize: the division is left out
normalizeSkipped(matrix) == matrix

normalize(matrix) ==
    CHOOSE r \in {DivideColumns(m, ColumnSums(m)) : m \in {matrix}} : TRUE

\* no entry of the matrix left the number range
InRange(matrix) ==
    \A m \in {matrix} :
        \A i \in 0..(m.rows - 1) : \A j \in 0..(m.cols - 1) : m.data[i][j] # Huge

\* ------------------------------------------------------------------- maze
\* The Maze collaborator: a grid of characters, "#" a wall, any other
\* character the colour of a traversable cell; colors is the colour alphabet.
None == "None"

width(maze) == Len(maze.grid[1])
height(maze) == Len(maze.grid)

\* maze.get_char(x, y): the character of the cell, None outside the grid
get_char(maze, x, y) ==
    IF x >= 0 /\ x < width(maze) /\ y >= 0 /\ y < height(maze)
    THEN maze.grid[y + 1][x + 1]
    ELSE None

Traversable(maze, x, y) ==
    get_char(maze, x, y) # None /\ get_char(maze, x, y) # "#"

\* maze.index(x, y): the dense linear index of a traversable cell, counting
\* the traversable cells row by row
index(maze, x, y) ==
    Cardinality({c \in (0..(width(maze) - 1)) \X (0..(height(maze) - 1)) :
                    /\ Traversable(maze, c[1], c[2])
                    /\ (c[2] < y \/ (c[2] = y /\ c[1] < x))})

\* maze.count_positions(): the number of traversable cells
count_positions(maze) ==
    Cardinality({c \in (0..(width(maze) - 1)) \X (0..(height(maze) - 1)) :
                    Traversable(maze, c[1], c[2])})

color_count(maze) == Cardinality(maze.colors)

\* ------------------------------------------------------------ HMM builder
CORRECT_COLOR == Rat(88, 100)
WRONG_COLOR == Rat(100 - 88, 100)
MOVE_PROBABILITY == Rat(1, 4)
NORTH_PROBABILITY == MOVE_PROBABILITY
SOUTH_PROBABILITY == MOVE_PROBABILITY
EAST_PROBABILITY == MOVE_PROBABILITY
WEST_PROBABILITY == MOVE_PROBABILITY

\* mutant of compute_sensor_values: the wrong-colour mass is not shared out
\* among the other colours
compute_sensor_valuesUnsplit(self, maze, x, y) ==
    CHOOSE r \in
        {IF c # None /\ c # "#"
         THEN [h EXCEPT !.sensor_probabilities =
                 [color \in maze.colors |->
                     IF color = c
                     THEN setitem(h.sensor_probabilities[color], pos, pos, CORRECT_COLOR)
                     ELSE setitem(h.sensor_probabilities[color], pos, pos, WRONG_COLOR)]]
         ELSE h :
            h \in {self}, pos \in {index(maze, x, y)}, c \in {get_char(maze, x, y)}} : TRUE

\* HMM.compute_sensor_values(x, y) on engine self: the diagonal entry of
\* every colour's matrix at the cell's index
compute_sensor_values(self, maze, x, y) ==
    CHOOSE r \in
        {IF c # None /\ c # "#"
         THEN [h EXCEPT !.sensor_probabilities =
                 [color \in maze.colors |->
                     IF color = c
                     THEN setitem(h.sensor_probabilities[color], pos, pos, CORRECT_COLOR)
                     ELSE setitem(h.sensor_probabilities[color], pos, pos,
                                  RDiv(WRONG_COLOR, <<color_count(maze) - 1, 1>>))]]
         ELSE h :
            h \in {self}, pos \in {index(maze, x, y)}, c \in {get_char(maze, x, y)}} : TRUE

\* mutant of Direction: a blocked direction adds nothing to stay_put
DirectionNoStay(st0, maze, nx, ny, current_index, probability) ==
    CHOOSE r \in
        {IF Traversable(maze, nx, ny)
         THEN <<setitem(st[1], index(maze, nx, ny), current_index, probability), st[2]>>
         ELSE st :
            st \in {st0}} : TRUE

\* one direction of compute_transition_matrix at the neighbour (nx, ny):
\* st = <<transitions, stay_put>>
Direction(st0, maze, nx, ny, current_index, probability) ==
    CHOOSE r \in
        {IF Traversable(maze, nx, ny)
         THEN <<setitem(st[1], index(maze, nx, ny), current_index, probability), st[2]>>
         ELSE <<st[1], RAdd(st[2], probability)>> :
            st \in {st0}} : TRUE

\* the four directions in the order north, south, east, west, then the
\* assignment of stay_put to the self-transition
TransitionsOf(transitions, maze, x, y, current_index) ==
    CHOOSE r \in
        {setitem(st[1], current_index, current_index, st[2]) :
            st \in {Direction(
                      Direction(
                        Direction(
                          Direction(<<transitions, Zero>>,
                                    maze, x, y - 1, current_index, NORTH_PROBABILITY),
                          maze, x, y + 1, current_index, SOUTH_PROBABILITY),
                        maze, x + 1, y, current_index, EAST_PROBABILITY),
                      maze, x - 1, y, current_index, WEST_PROBABILITY)}} : TRUE

\* HMM.compute_transition_matrix(x, y) on engine self
compute_transition_matrix(self, maze, x, y) ==
    CHOOSE r \in
        {IF get_char(maze, x, y) # None /\ get_char(maze, x, y) # "#"
         THEN [h EXCEPT !.transitions =
                 TransitionsOf(h.transitions, maze, x, y, index(maze, x, y))]
         ELSE h :
            h \in {self}} : TRUE

\* the body of the loops of initialize_probabilities for the cell (x, y)
InitializeCell(self, maze, x, y) ==
    CHOOSE r \in
        {IF get_char(maze, x, y) # None /\ get_char(maze, x, y) # "#"
         THEN [h EXCEPT !.position_distribution =
                  setitem(h.position_distribution, index(maze, x, y), 0,
                          Rat(1, h.total_positions))]
         ELSE h :
            h \in {IF get_char(maze, x, y) # None /\ get_char(maze, x, y) # "#"
                   THEN compute_transition_matrix(
                            compute_sensor_values(self, maze, x, y), maze, x, y)
                   ELSE self}} : TRUE

\* the loops of initialize_probabilities, x outermost: the first k cells done
RECURSIVE InitializeCells(_, _, _)
InitializeCells(self, maze, k) ==
    IF k = 0 THEN self
    ELSE InitializeCell(InitializeCells(self, maze, k - 1), maze,
                        (k - 1) \div height(maze), (k - 1) % height(maze))

initialize_probabilities(self, maze) ==
    InitializeCells([self EXCEPT !.position_distribution = zeros(self.total_positions, 1)],
                    maze, width(maze) * height(maze))

\* HMM.__init__ on a maze with at least one traversable cell
HMM(maze) ==
    CHOOSE r \in
        {initialize_probabilities(
            [total_positions       |-> n,
             sensor_probabilities  |-> [color \in maze.colors |-> zeros(n, n)],
             transitions           |-> zeros(n, n),
             position_distribution |-> zeros(width(maze), height(maze)),
             steps                 |-> << >>],
            maze) :
            n \in {count_positions(maze)}} : TRUE

\* ------------------------------------------------------------- inference
\* str.lower() on the labels the callers use
Lower(c) ==
    CASE c = "R" -> "r"
      [] c = "G" -> "g"
      [] c = "B" -> "b"
      [] c = "X" -> "x"
      [] OTHER   -> c

lower(readings) == [i \in 1..Len(readings) |-> Lower(readings[i])]

\* mutant of ForwardLoop: the prediction through the transition matrix is
\* left out, only the sensor update is applied
RECURSIVE ForwardLoopNoPredict(_, _, _, _)
ForwardLoopNoPredict(self, readings, steps0, step) ==
    CHOOSE r \in
        {IF step >= Len(readings) THEN steps
         ELSE ForwardLoopNoPredict(self, readings,
                  Append(steps,
                         normalize(mul(self.sensor_probabilities[readings[step + 1]],
                                       steps[Len(steps)]))),
                  step + 1) :
            steps \in {steps0}} : TRUE

\* the loop of forward from index step on: steps0 holds the beliefs appended
\* so far, the last of them being the local variable distribution
RECURSIVE ForwardLoop(_, _, _, _)
ForwardLoop(self, readings, steps0, step) ==
    CHOOSE r \in
        {IF step >= Len(readings) THEN steps
         ELSE ForwardLoop(self, readings,
                  Append(steps,
                         normalize(mul(self.sensor_probabilities[readings[step + 1]],
                                       mul(transpose(self.transitions),
                                           steps[Len(steps)])))),
                  step + 1) :
            steps \in {steps0}} : TRUE

\* mutant of forward: the sequence of an earlier run is not reset
forwardNoReset(self0, maze, readings0) ==
    CHOOSE r \in
        {IF \E i \in 1..Len(readings) : readings[i] \notin maze.colors
         THEN [self |-> self, raised |-> "ValueError"]
         ELSE [self   |-> [self EXCEPT !.steps =
                             ForwardLoop(self, readings,
                                 Append(self.steps, copy(self.position_distribution)),
                                 0)],
               raised |-> "none"] :
            self \in {self0}, readings \in {lower(readings0)}} : TRUE

\* mutant of forward: the run starts from the last belief of an earlier run
forwardCarried(self0, maze, readings0) ==
    CHOOSE r \in
        {IF \E i \in 1..Len(readings) : readings[i] \notin maze.colors
         THEN [self |-> self, raised |-> "ValueError"]
         ELSE [self   |-> [self EXCEPT !.steps =
                             ForwardLoop(self, readings,
                                 <<IF self.steps # << >>
                                   THEN self.steps[Len(self.steps)]
                                   ELSE copy(self.position_distribution)>>,
                                 0)],
               raised |-> "none"] :
            self \in {self0}, readings \in {lower(readings0)}} : TRUE

\* HMM.forward(readings): the engine after the call and the exception raised
forward(self0, maze, readings0) ==
    CHOOSE r \in
        {IF \E i \in 1..Len(readings) : readings[i] \notin maze.colors
         THEN [self |-> self, raised |-> "ValueError"]
         ELSE [self   |-> [self EXCEPT !.steps =
                             ForwardLoop(self, readings,
                                 Append(IF self.steps # << >> THEN << >> ELSE self.steps,
                                        copy(self.position_distribution)),
                                 0)],
               raised |-> "none"] :
            self \in {self0}, readings \in {lower(readings0)}} : TRUE

\* the loop of backward from index step down to 1; steps0 is the Python
\* list self.steps (steps[k + 1] is self.steps[k]), vector0 the backward
\* vector
RECURSIVE BackwardLoop(_, _, _, _, _, _)
BackwardLoop(self, maze, readings, steps0, vector0, step) ==
    CHOOSE r \in
        {IF step <= 0 THEN [steps |-> steps, raised |-> "none"]
         ELSE IF step - 1 >= Len(readings)
         THEN [steps |-> steps, raised |-> "IndexError"]
         ELSE IF readings[step] \notin maze.colors
         THEN [steps |-> steps, raised |-> "KeyError"]
         ELSE BackwardLoop(self, maze, readings, steps,
                           mul(self.transitions,
                               mul(self.sensor_probabilities[readings[step]], vector)),
                           step - 1) :
            vector \in {vector0},
            steps \in {IF step <= 0 THEN steps0
                       ELSE [steps0 EXCEPT ![step + 1] =
                                normalize(multiply(steps0[step + 1], vector0))]}} : TRUE

\* backward after its call of forward, fwd0 being that call's result
BackwardSweep(fwd0, maze, readings, vector) ==
    CHOOSE r \in
        {IF fwd.raised # "none" THEN fwd
         ELSE CHOOSE res \in
                 {[self |-> [fwd.self EXCEPT !.steps = loop.steps], raised |-> loop.raised] :
                     loop \in {BackwardLoop(fwd.self, maze, readings, fwd.self.steps,
                                            vector, Len(fwd.self.steps) - 1)}} : TRUE :
            fwd \in {fwd0}} : TRUE

\* HMM.backward(readings): the engine after the call and the exception raised
backward(self0, maze, readings0) ==
    CHOOSE r \in
        {BackwardSweep(IF self.steps = << >>
                       THEN forward(self, maze, readings)
                       ELSE [self |-> self, raised |-> "none"],
                       maze, readings, ones(count_positions(maze), 1)) :
            self \in {self0}, readings \in {lower(readings0)}} : TRUE

\* int(x) of a float holding a whole number
ToInt(r) == r[1] \div r[2]

\* the body of the innermost loop of viterbi: candidate0 is
\* delta[t-1, prev] * transitions[prev, curr]; st = [delta, predecessors]
ViterbiUpdate(st, t, curr, prev, candidate0) ==
    CHOOSE r \in
        {IF RLess(getitem(st.delta, t, curr), candidate)
         THEN [delta        |-> normalize(setitem(st.delta, t, curr, candidate)),
               predecessors |-> setitem(st.predecessors, t, curr, <<prev, 1>>)]
         ELSE st :
            candidate \in {candidate0}} : TRUE

\* the innermost loop of viterbi over prev, from index prev on
RECURSIVE ViterbiPrev(_, _, _, _, _)
ViterbiPrev(self, st0, t, curr, prev) ==
    CHOOSE r \in
        {IF prev >= self.total_positions THEN st
         ELSE ViterbiPrev(self,
                  ViterbiUpdate(st, t, curr, prev,
                                RMul(getitem(st.delta, t - 1, prev),
                                     getitem(self.transitions, prev, curr))),
                  t, curr, prev + 1) :
            st \in {st0}} : TRUE

\* delta[t, curr] *= emissions[readings[t]][curr, curr]
ViterbiEmit(self, st0, readings, t, curr) ==
    CHOOSE r \in
        {[st EXCEPT !.delta =
            setitem(st.delta, t, curr,
                    RMul(getitem(st.delta, t, curr),
                         getitem(self.sensor_probabilities[readings[t + 1]], curr, curr)))] :
            st \in {st0}} : TRUE

\* the loop over curr at time t, from index curr on
RECURSIVE ViterbiCurr(_, _, _, _, _)
ViterbiCurr(self, st0, readings, t, curr) ==
    CHOOSE r \in
        {IF curr >= self.total_positions THEN st
         ELSE ViterbiCurr(self,
                  ViterbiEmit(self, ViterbiPrev(self, st, t, curr, 0), readings, t, curr),
                  readings, t, curr + 1) :
            st \in {st0}} : TRUE

\* the loop over t, from index t on
RECURSIVE ViterbiTime(_, _, _, _)
ViterbiTime(self, st0, readings, t) ==
    CHOOSE r \in
        {IF t >= Len(readings) THEN st
         ELSE ViterbiTime(self, ViterbiCurr(self, st, readings, t, 0), readings, t + 1) :
            st \in {st0}} : TRUE

\* delta after the initialisation loop over pos
ViterbiInit(self, readings) ==
    [zeros(Len(readings), self.total_positions) EXCEPT !.data[0] =
        [pos \in 0..(self.total_positions - 1) |->
            RMul(getitem(self.position_distribution, pos, 0),
                 getitem(self.transitions, pos, pos))]]

\* mutant of FinalScan: a later state of equal probability replaces the best
RECURSIVE FinalScanLast(_, _, _, _)
FinalScanLast(delta, last, best0, step) ==
    CHOOSE r \in
        {IF step >= delta.cols THEN best
         ELSE IF ~RLess(getitem(delta, last, step), best[1])
              THEN FinalScanLast(delta, last, <<getitem(delta, last, step), step>>, step + 1)
              ELSE FinalScanLast(delta, last, best, step + 1) :
            best \in {best0}} : TRUE

\* the scan for the final state: best = <<max_probability, path[len - 1]>>
RECURSIVE FinalScan(_, _, _, _)
FinalScan(delta, last, best0, step) ==
    CHOOSE r \in
        {IF step >= delta.cols THEN best
         ELSE IF RLess(best[1], getitem(delta, last, step))
              THEN FinalScan(delta, last, <<getitem(delta, last, step), step>>, step + 1)
              ELSE FinalScan(delta, last, best, step + 1) :
            best \in {best0}} : TRUE

\* mutant of Backtrack: the predecessor is read one row too early
RECURSIVE BacktrackShifted(_, _, _, _)
BacktrackShifted(predecessors, path0, len, t) ==
    CHOOSE r \in
        {IF t >= len THEN path
         ELSE BacktrackShifted(predecessors,
                        [path EXCEPT ![len - t] =
                            ToInt(getitem(predecessors, len - t - 1, path[len - t + 1]))],
                        len, t + 1) :
            path \in {path0}} : TRUE

\* the backtracking loop: path0 is the array np.zeros(len) being filled in
\* (path[k + 1] is path[k]), t the loop variable
RECURSIVE Backtrack(_, _, _, _)
Backtrack(predecessors, path0, len, t) ==
    CHOOSE r \in
        {IF t >= len THEN path
         ELSE Backtrack(predecessors,
                        [path EXCEPT ![len - t] =
                            ToInt(getitem(predecessors, len - t, path[len - t + 1]))],
                        len, t + 1) :
            path \in {path0}} : TRUE

\* the delta and predecessors tables viterbi ends its loops with
ViterbiTables(self, readings) ==
    ViterbiTime(self,
                [delta        |-> ViterbiInit(self, readings),
                 predecessors |-> copy(zeros(Len(readings), self.total_positions))],
                readings, 1)

\* the end of viterbi on the tables st0: the final-state scan and the
\* backtracking from it
ViterbiPath(st0, len) ==
    CHOOSE r \in
        {[path   |-> Backtrack(st.predecessors,
                               [[k \in 1..len |-> 0] EXCEPT
                                   ![len] = FinalScan(st.delta, len - 1, <<Zero, 0>>, 0)[2]],
                               len, 1),
          raised |-> "none",
          delta  |-> st.delta] :
            st \in {st0}} : TRUE

\* HMM.viterbi(readings): the returned path, the exception raised and the
\* final delta table
viterbi(self0, maze, readings0) ==
    CHOOSE r \in
        {IF Len(readings) = 0
         THEN [path |-> << >>, raised |-> "IndexError",
               delta |-> zeros(0, self.total_positions)]
         ELSE IF \E t \in 2..Len(readings) : readings[t] \notin maze.colors
         THEN [path |-> << >>, raised |-> "KeyError",
               delta |-> zeros(0, self.total_positions)]
         ELSE ViterbiPath(ViterbiTables(self, readings), Len(readings)) :
            self \in {self0}, readings \in {lower(readings0)}} : TRUE


\* ------------------------------------------------------ arrays and objects
\* The operations above compute values.  Below, Matrix objects and the numpy
\* arrays they hold live in a heap, so that sharing and mutation are visible:
\* heap.arrays is the sequence of arrays (a table each: rows, cols, data),
\* heap.matrices the sequence of Matrix objects (data, rows, cols), where
\* data is a reference to an array.  An address is a position in the
\* sequence.  A reference names a base array and whether it is seen
\* transposed: np.transpose returns such a view of its argument.
Ref(base, T) == [base |-> base, T |-> T]

IsRef(source) == "base" \in DOMAIN source

\* float difference; a negative difference is outside the number range
RSub(a0, b0) ==
    CHOOSE r \in
        {IF a = Huge \/ b = Huge THEN Huge
         ELSE IF a = NaN \/ b = NaN THEN NaN
         ELSE IF a = Inf THEN (IF b = Inf THEN NaN ELSE Inf)
         ELSE IF b = Inf THEN Huge
         ELSE IF RLess(a, b) THEN Huge
         ELSE IF x < 0 \/ y < 0 \/ den < 0 THEN Huge
         ELSE Rat(x - y, den) :
            a \in {a0}, b \in {b0},
            x \in {IF a0[2] = 0 \/ b0[2] = 0 THEN 0
                   ELSE Times(a0[1], b0[2] \div GCD(a0[2], b0[2]))},
            y \in {IF a0[2] = 0 \/ b0[2] = 0 THEN 0
                   ELSE Times(b0[1], a0[2] \div GCD(a0[2], b0[2]))},
            den \in {IF a0[2] = 0 \/ b0[2] = 0 THEN 1
                     ELSE Times(a0[2], b0[2] \div GCD(a0[2], b0[2]))}} : TRUE

\* x ** k for a whole k >= 0 (numpy gives 1 for every x when k = 0)
RECURSIVE RPow(_, _)
RPow(x0, k) ==
    CHOOSE r \in {IF k = 0 THEN One
                  ELSE IF k = 1 THEN x
                  ELSE RMul(x, RPow(x, k - 1)) : x \in {x0}} : TRUE

\* numpy broadcasting of two 2-d shapes
Broadcastable(a, b) ==
    /\ a.rows = b.rows \/ a.rows = 1 \/ b.rows = 1
    /\ a.cols = b.cols \/ a.cols = 1 \/ b.cols = 1

Larger(x, y) == IF x < y THEN y ELSE x

\* a binary numpy operation on two numbers
Ufunc(name, x, y) ==
    CASE name = "add"         -> RAdd(x, y)
      [] name = "subtract"    -> RSub(x, y)
      [] name = "multiply"    -> RMul(x, y)
      [] name = "true_divide" -> RDiv(x, y)

\* a binary numpy operation applied to two broadcastable tables
Elementwise(name, a0, b0) ==
    CHOOSE r \in
        {Matrix(Larger(a.rows, b.rows), Larger(a.cols, b.cols),
                [i \in 0..(Larger(a.rows, b.rows) - 1) |->
                    [j \in 0..(Larger(a.cols, b.cols) - 1) |->
                        Ufunc(name,
                           a.data[IF a.rows = 1 THEN 0 ELSE i][IF a.cols = 1 THEN 0 ELSE j],
                           b.data[IF b.rows = 1 THEN 0 ELSE i][IF b.cols = 1 THEN 0 ELSE j])]]) :
            a \in {a0}, b \in {b0}} : TRUE

np_add(a, b) == Elementwise("add", a, b)

np_subtract(a, b) == Elementwise("subtract", a, b)

np_multiply(a, b) == Elementwise("multiply", a, b)

np_true_divide(a, b) == Elementwise("true_divide", a, b)

np_power(a0, k) ==
    CHOOSE r \in
        {Matrix(a.rows, a.cols,
                [i \in 0..(a.rows - 1) |-> [j \in 0..(a.cols - 1) |->
                    RPow(a.data[i][j], k)]]) :
            a \in {a0}} : TRUE

\* data.sum(axis=axis, keepdims=True): a 1 x cols table of column sums for
\* axis 0, a rows x 1 table of row sums for axis 1
np_sum(a0, axis) ==
    CHOOSE r \in
        {IF axis = 0
         THEN Matrix(1, a.cols,
                [i \in {0} |-> [j \in 0..(a.cols - 1) |->
                    SumRange([k \in 0..(a.rows - 1) |-> a.data[k][j]], 0, a.rows - 1)]])
         ELSE Matrix(a.rows, 1,
                [i \in 0..(a.rows - 1) |-> [j \in {0} |->
                    SumRange([k \in 0..(a.cols - 1) |-> a.data[i][k]], 0, a.cols - 1)]]) :
            a \in {a0}} : TRUE

\* the table seen through a reference
Read(arrays, ref) ==
    IF ref.T THEN transpose(arrays[ref.base]) ELSE arrays[ref.base]

\* np.transpose(array): a view of the same array, no copy
np_transpose(ref) == Ref(ref.base, ~ref.T)

\* a fresh array holding the table
NewArray(heap0, table) ==
    CHOOSE r \in
        {[heap |-> [heap EXCEPT !.arrays = Append(@, table)],
          ref  |-> Ref(Len(heap.arrays) + 1, FALSE)] :
            heap \in {heap0}} : TRUE

\* mutant of np_array: the source array is kept, not copied
np_arrayShared(heap, source) ==
    IF IsRef(source) THEN [heap |-> heap, ref |-> source]
    ELSE NewArray(heap, source)

\* np.array(source): a new array holding a copy of the source, which is a
\* view of an array of the heap or the fresh result of a numpy operation
np_array(heap, source) ==
    NewArray(heap, IF IsRef(source) THEN Read(heap.arrays, source) ELSE source)

\* Matrix(0, 0, source): a new object; the outcome of a constructing
\* operation is the heap, the address of the result and the exception raised
Matrix_init(heap0, source) ==
    CHOOSE r \in
        {[heap   |-> [a.heap EXCEPT !.matrices =
                        Append(@, [data |-> a.ref,
                                   rows |-> Read(a.heap.arrays, a.ref).rows,
                                   cols |-> Read(a.heap.arrays, a.ref).cols])],
          result |-> Len(a.heap.matrices) + 1,
          raised |-> "none"] :
            a \in {np_array(heap0, source)}} : TRUE

Raise(heap, exception) == [heap |-> heap, result |-> None, raised |-> exception]

\* the table a Matrix object holds
Value(heap, m) == Read(heap.arrays, heap.matrices[m].data)

\* Matrix.shape()
shape(heap, m) == <<heap.matrices[m].rows, heap.matrices[m].cols>>

\* Matrix.__add__(self, other) with a Matrix operand
Matrix_add(heap, self, other) ==
    IF shape(heap, self) # shape(heap, other) THEN Raise(heap, "ValueError")
    ELSE Matrix_init(heap, np_add(Value(heap, self), Value(heap, other)))

\* Matrix.__sub__(self, other) with a Matrix operand
Matrix_sub(heap, self, other) ==
    IF shape(heap, self) # shape(heap, other) THEN Raise(heap, "ValueError")
    ELSE Matrix_init(heap, np_subtract(Value(heap, self), Value(heap, other)))

\* Matrix.__mul__(self, other) with a Matrix operand: the code's test reads
\* the rows and cols attributes, np.dot the arrays
Matrix_mul(heap, self, other) ==
    IF mulRaises(heap.matrices[self], heap.matrices[other])
    THEN Raise(heap, "ValueError")
    ELSE Matrix_init(heap, dot(Value(heap, self), Value(heap, other)))

\* Matrix.multiply(m1, m2) with two Matrix operands: np.multiply broadcasts,
\* and raises ValueError on shapes it cannot broadcast
Matrix_multiply(heap, m1, m2) ==
    IF ~Broadcastable(Value(heap, m1), Value(heap, m2)) THEN Raise(heap, "ValueError")
    ELSE Matrix_init(heap, np_multiply(Value(heap, m1), Value(heap, m2)))

\* Matrix.__pow__(self, other) with a whole number
Matrix_pow(heap, self, other) ==
    Matrix_init(heap, np_power(Value(heap, self), other))

\* Matrix.transpose(self)
Matrix_transpose(heap, self) ==
    Matrix_init(heap, np_transpose(heap.matrices[self].data))

\* Matrix.__setitem__(self, (row, col), value): writes the array that
\* self.data refers to, IndexError outside it
Matrix_setitem(heap0, self, row, col, value) ==
    CHOOSE r \in
        {IF row >= Read(heap.arrays, ref).rows \/ col >= Read(heap.arrays, ref).cols
         THEN Raise(heap, "IndexError")
         ELSE [heap   |-> [heap EXCEPT !.arrays[ref.base] =
                             IF ref.T THEN setitem(@, col, row, value)
                             ELSE setitem(@, row, col, value)],
               result |-> None,
               raised |-> "none"] :
            heap \in {heap0}, ref \in {heap0.matrices[self].data}} : TRUE

\* mutant of Matrix_normalize: the quotient is computed and dropped
Matrix_normalizeDropped(heap0, matrix, axis) ==
    [heap |-> heap0, result |-> None, raised |-> "none"]

\* Matrix.normalize(matrix, axis): matrix.data is bound to the new array
\* data / data.sum(axis, keepdims=True); rows and cols are not touched
Matrix_normalize(heap0, matrix, axis) ==
    CHOOSE r \in
        {[heap   |-> [a.heap EXCEPT !.matrices[matrix].data = a.ref],
          result |-> None,
          raised |-> "none"] :
            a \in {NewArray(heap0, np_true_divide(Value(heap0, matrix),
                                                  np_sum(Value(heap0, matrix), axis)))}} : TRUE
\* ----------------------------------------------------------- state machine
VARIABLES
    maze,       \* the grid the engine was built from
    engine,     \* the HMM object: total_positions, sensor_probabilities,
                \* transitions, position_distribution, steps
    op,         \* the last call made: "init", "forward", "backward", "viterbi"
    readings,   \* the argument of the last call
    raised,     \* the exception the last call raised, "none" if it returned
    returned,   \* the value the last call returned (None unless viterbi's path)
    calls,      \* the number of calls made on the engine
    heap,       \* the Matrix objects and arrays of a program using Matrix.py
    history,    \* the operations that program has applied, oldest first
    search_problem, \* the problem astar_search runs on: start_state, goals,
                    \* successors
    heuristic_fn,   \* the heuristic astar_search runs with
    queue,          \* the frontier: the nodes pushed and not yet popped
    visited_cost,   \* the least cost recorded for every state reached
    solution,       \* the SearchSolution: path, cost, nodes_visited
    pc              \* astar_search is in its loop ("loop") or has returned ("done")

hmmVars == <<maze, engine, op, readings, raised, returned, calls>>
matrixVars == <<heap, history>>
astarVars == <<search_problem, heuristic_fn, queue, visited_cost, solution, pc>>

vars == <<hmmVars, matrixVars, astarVars>>

EmptyHeap == [arrays |-> << >>, matrices |-> << >>]

\* no program using Matrix.py on its own is running
MatrixIdle == heap = EmptyHeap /\ history = << >>

\* no search is running
AstarIdle ==
    /\ search_problem = None
    /\ heuristic_fn = None
    /\ queue = {}
    /\ visited_cost = << >>
    /\ solution = None
    /\ pc = "done"

\* the grids engines are built from
Mazes ==
    { [grid |-> << <<"r">> >>, colors |-> {"r"}],
      [grid |-> << <<"r", "g", "b">> >>, colors |-> {"r", "g", "b"}],
      [grid |-> << <<"#", "r", "#">>, <<"r", "g", "r">> >>, colors |-> {"r", "g"}],
      [grid |-> << <<"#", "r", "#">>, <<"g", "r", "g">>, <<"#", "g", "#">> >>,
       colors |-> {"r", "g"}] }

\* the label a caller writes for a colour
Upper(c) ==
    CASE c = "r" -> "R"
      [] c = "g" -> "G"
      [] c = "b" -> "B"
      [] OTHER   -> c

\* the labels of observation strings: the colours of the grid as the
\* callers write them, and one label outside the alphabet
Labels(m) == {Upper(c) : c \in m.colors} \cup {"X"}

RECURSIVE Strings(_, _)
Strings(alphabet, n) ==
    IF n = 0 THEN {<< >>}
    ELSE Strings(alphabet, n - 1) \cup
         {Append(s, c) : s \in {t \in Strings(alphabet, n - 1) : Len(t) = n - 1},
                         c \in alphabet}

Observations(m) == Strings(Labels(m), MaxLen)

\* strings over the colour alphabet only
Valid(m, obs) == \A i \in 1..Len(obs) : Lower(obs[i]) \in m.colors

StepsInRange(steps) == \A k \in 1..Len(steps) : InRange(steps[k])

Init ==
    /\ maze \in Mazes
    /\ engine = HMM(maze)
    /\ op = "init"
    /\ readings = << >>
    /\ raised = "none"
    /\ returned = None
    /\ calls = 0
    /\ MatrixIdle
    /\ AstarIdle

Forward(obs) ==
    /\ calls < MaxCalls
    /\ \E res \in {forward(engine, maze, obs)} :
          /\ StepsInRange(res.self.steps)
          /\ engine' = res.self
          /\ raised' = res.raised
    /\ op' = "forward"
    /\ readings' = obs
    /\ returned' = None
    /\ calls' = calls + 1
    /\ UNCHANGED <<maze, matrixVars, astarVars>>

Backward(obs) ==
    /\ calls < MaxCalls
    /\ \E res \in {backward(engine, maze, obs)} :
          /\ StepsInRange(res.self.steps)
          /\ engine' = res.self
          /\ raised' = res.raised
    /\ op' = "backward"
    /\ readings' = obs
    /\ returned' = None
    /\ calls' = calls + 1
    /\ UNCHANGED <<maze, matrixVars, astarVars>>

Viterbi(obs) ==
    /\ calls < MaxCalls
    /\ \E res \in {viterbi(engine, maze, obs)} :
          /\ InRange(res.delta)
          /\ raised' = res.raised
          /\ returned' = IF res.raised = "none" THEN res.path ELSE None
    /\ op' = "viterbi"
    /\ readings' = obs
    /\ calls' = calls + 1
    /\ UNCHANGED <<maze, engine, matrixVars, astarVars>>

Next ==
    \E obs \in Observations(maze) :
        \/ Forward(obs)
        \/ Backward(obs)
        \/ Viterbi(obs)

Spec == Init /\ [][Next]_vars

TypeOK ==
    /\ maze \in Mazes
    /\ op \in {"init", "forward", "backward", "viterbi"}
    /\ raised \in {"none", "ValueError", "KeyError", "IndexError"}
    /\ calls \in 0..MaxCalls


\* ------------------------------------------- a program using Matrix.py
\* Matrix(rows, cols, source) from a list of lists of whole numbers
Table(source) ==
    Matrix(Len(source), Len(source[1]),
           [i \in 0..(Len(source) - 1) |->
               [j \in 0..(Len(source[1]) - 1) |-> Rat(source[i + 1][j + 1], 1)]])

\* the matrices programs start from
InputTables ==
    { Table(<< <<2>> >>),
      Table(<< <<0>> >>),
      Table(<< <<1, 2>> >>),
      Table(<< <<0, 0>> >>),
      Table(<< <<1>>, <<3>> >>),
      Table(<< <<0>>, <<2>> >>),
      Table(<< <<1, 2>>, <<3, 4>> >>),
      Table(<< <<0, 1>>, <<0, 2>> >>),
      Table(<< <<1, 1>>, <<0, 0>> >>),
      Table(<< <<2, 0>>, <<0, 2>> >>),
      Table(<< <<1, 2, 3>>, <<4, 5, 6>> >>) }

\* the number of operations a program applies
MaxOps == 2

Objects == 1..Len(heap.matrices)

HeapInRange(h) == \A a \in 1..Len(h.arrays) : InRange(h.arrays[a])

\* no HMM engine is in use
HMMIdle ==
    /\ maze = None
    /\ engine = None
    /\ op = "init"
    /\ readings = << >>
    /\ raised = "none"
    /\ returned = None
    /\ calls = 0

MatrixStart ==
    /\ \E source \in InputTables : heap = Matrix_init(EmptyHeap, source).heap
    /\ history = << >>
    /\ HMMIdle
    /\ AstarIdle

\* the step of the program that applies one operation with outcome res
Call(name, self, argument, res) ==
    /\ Len(history) < MaxOps
    /\ HeapInRange(res.heap)
    /\ heap' = res.heap
    /\ history' = Append(history, [op |-> name, self |-> self, argument |-> argument,
                                   result |-> res.result, raised |-> res.raised])
    /\ UNCHANGED <<hmmVars, astarVars>>

CallAdd(a, b) == Call("add", a, b, Matrix_add(heap, a, b))

CallSub(a, b) == Call("sub", a, b, Matrix_sub(heap, a, b))

CallMul(a, b) == Call("mul", a, b, Matrix_mul(heap, a, b))

CallMultiply(a, b) == Call("multiply", a, b, Matrix_multiply(heap, a, b))

CallPow(a) == Call("pow", a, 2, Matrix_pow(heap, a, 2))

CallTranspose(a) == Call("transpose", a, None, Matrix_transpose(heap, a))

CallNormalize(a, axis) == Call("normalize", a, axis, Matrix_normalize(heap, a, axis))

CallSetItem(a, row, col) ==
    Call("setitem", a, <<row, col>>, Matrix_setitem(heap, a, row, col, Rat(5, 1)))

MatrixNext ==
    \/ \E a \in Objects, b \in Objects : CallAdd(a, b)
    \/ \E a \in Objects, b \in Objects : CallSub(a, b)
    \/ \E a \in Objects, b \in Objects : CallMul(a, b)
    \/ \E a \in Objects, b \in Objects : CallMultiply(a, b)
    \/ \E a \in Objects : CallPow(a)
    \/ \E a \in Objects : CallTranspose(a)
    \/ \E a \in Objects, axis \in {0, 1} : CallNormalize(a, axis)
    \/ \E a \in Objects, row \in {0, 1}, col \in {0, 1} : CallSetItem(a, row, col)

MatrixSpec == MatrixStart /\ [][MatrixNext]_vars

\* ------------------------------------------------------------- A* search
\* astar_search (src/02-Mazeworld/astar_search.py).  The search problem
\* (start_state, is_goal, get_successors), the PriorityQueue and the
\* SearchSolution are collaborators: a problem is a start state, a set of
\* goal states and the successors of every state; the queue is the set of
\* nodes pushed and not popped, and pop returns a node of least priority
\* (any of them when several share it); a new SearchSolution has no path.
INFINITY == 1048576

\* the largest value a heuristic gives
MaxHeuristic == 2

AstarNode(state, heuristic, parent, transition_cost) ==
    [state |-> state, heuristic |-> heuristic, parent |-> parent,
     transition_cost |-> transition_cost]

\* AstarNode.priority
priority(self) == self.heuristic + self.transition_cost

\* a reference to a node is <<node>>, the reference None is << >>
NoNode == << >>

\* backchain(node): the states from the root to the node
RECURSIVE backchain(_)
backchain(node) ==
    IF node = NoNode THEN << >>
    ELSE Append(backchain(node[1].parent), node[1].state)

\* PriorityQueue.pop can return these nodes
Front(q) == {n \in q : \A other \in q : priority(n) <= priority(other)}

\* SearchSolution(search_problem, name)
SearchSolution == [path |-> << >>, cost |-> 0, nodes_visited |-> 0]

is_goal(problem, state) == state \in problem.goals

get_successors(problem, state) == problem.successors[state]

\* visited_cost.get(state, INFINITY)
GetCost(visited, state) ==
    IF state \in DOMAIN visited THEN visited[state] ELSE INFINITY

\* mutant of Superseded: no popped node is recognised as superseded
SupersededNever(visited, node) == FALSE

\* visited_cost[current_state] != current_node.transition_cost
Superseded(visited, node) == visited[node.state] # node.transition_cost

\* mutant of Improves: a state reached before is never taken up again
ImprovesUnseenOnly(visited, next_state, next_cost) == next_state \notin DOMAIN visited

\* visited_cost.get(next_state, INFINITY) > next_cost
Improves(visited, next_state, next_cost) == GetCost(visited, next_state) > next_cost

\* the successors of the node that the for loop records and pushes
Improved(problem, visited, node) ==
    {next_state \in get_successors(problem, node.state) :
        Improves(visited, next_state, node.transition_cost + 1)}

\* a search problem from the successor sets of the states 0, 1, ...
Problem(start_state, goals, successors) ==
    [start_state |-> start_state, goals |-> goals,
     successors |-> [s \in 0..(Len(successors) - 1) |-> successors[s + 1]]]

\* the problems searched: two routes of lengths 2 and 3 to state 4 on the
\* way to the goal; a ring whose goal cannot be reached; a 2 x 2 grid;
\* a start state that is a goal
Problems ==
    { Problem(0, {5}, <<{1, 2}, {4}, {3}, {4}, {5}, {}>>),
      Problem(0, {3}, <<{1, 2}, {0, 2}, {0, 1}, {}>>),
      Problem(0, {3}, <<{1, 2}, {0, 3}, {0, 3}, {1, 2}>>),
      Problem(0, {0, 1}, <<{1}, {0}>>) }

AstarStart ==
    /\ search_problem \in Problems
    /\ heuristic_fn \in [DOMAIN search_problem.successors -> 0..MaxHeuristic]
    /\ queue = {AstarNode(search_problem.start_state,
                          heuristic_fn[search_problem.start_state], NoNode, 0)}
    /\ visited_cost = [s \in {search_problem.start_state} |-> 0]
    /\ solution = SearchSolution
    /\ pc = "loop"
    /\ HMMIdle
    /\ MatrixIdle

\* the popped node has been superseded by a cheaper one for its state
SkipSuperseded(current_node) ==
    /\ pc = "loop"
    /\ current_node \in Front(queue)
    /\ Superseded(visited_cost, current_node)
    /\ queue' = queue \ {current_node}
    /\ UNCHANGED <<search_problem, heuristic_fn, visited_cost, solution, pc>>
    /\ UNCHANGED <<hmmVars, matrixVars>>

\* the popped node holds a goal state: the solution is filled in and the
\* loop is left
FoundGoal(current_node) ==
    /\ pc = "loop"
    /\ current_node \in Front(queue)
    /\ ~Superseded(visited_cost, current_node)
    /\ is_goal(search_problem, current_node.state)
    /\ queue' = queue \ {current_node}
    /\ solution' = [path |-> backchain(<<current_node>>),
                    cost |-> visited_cost[current_node.state],
                    nodes_visited |-> solution.nodes_visited + 1]
    /\ pc' = "done"
    /\ UNCHANGED <<search_problem, heuristic_fn, visited_cost>>
    /\ UNCHANGED <<hmmVars, matrixVars>>

\* the popped node is expanded: every successor reached more cheaply than
\* recorded gets the new cost and a node in the queue
Expand(current_node) ==
    /\ pc = "loop"
    /\ current_node \in Front(queue)
    /\ ~Superseded(visited_cost, current_node)
    /\ ~is_goal(search_problem, current_node.state)
    /\ \E pushed \in {Improved(search_problem, visited_cost, current_node)} :
          /\ visited_cost' =
                [s \in DOMAIN visited_cost \cup pushed |->
                    IF s \in pushed THEN current_node.transition_cost + 1
                    ELSE visited_cost[s]]
          /\ queue' = (queue \ {current_node}) \cup
                {AstarNode(s, heuristic_fn[s], <<current_node>>,
                           current_node.transition_cost + 1) : s \in pushed}
    /\ solution' = [solution EXCEPT !.nodes_visited = @ + 1]
    /\ UNCHANGED <<search_problem, heuristic_fn, pc>>
    /\ UNCHANGED <<hmmVars, matrixVars>>

\* the queue is empty: the loop ends and the solution is returned
Exhausted ==
    /\ pc = "loop"
    /\ queue = {}
    /\ pc' = "done"
    /\ UNCHANGED <<search_problem, heuristic_fn, queue, visited_cost, solution>>
    /\ UNCHANGED <<hmmVars, matrixVars>>

AstarNext ==
    \/ \E current_node \in queue : SkipSuperseded(current_node)
    \/ \E current_node \in queue : FoundGoal(current_node)
    \/ \E current_node \in queue : Expand(current_node)
    \/ Exhausted

\* the call runs on: a loop iteration that can be taken is taken
AstarSpec == AstarStart /\ [][AstarNext]_vars /\ WF_vars(AstarNext)
\* ------------------------------------------------------------ properties
\* a finite, non-negative number
IsProbability(r) == r[2] > 0 /\ r[1] >= 0

\* the sum of the entries of a column vector
VectorSum(m) == SumRange([i \in 0..(m.rows - 1) |-> m.data[i][0]], 0, m.rows - 1)

States == 0..(engine.total_positions - 1)

\* the traversable cell <<x, y>> with linear index s
Cell(m, s) ==
    CHOOSE c \in (0..(width(m) - 1)) \X (0..(height(m) - 1)) :
        Traversable(m, c[1], c[2]) /\ index(m, c[1], c[2]) = s

Adjacent(p, q) ==
    \/ p[1] = q[1] /\ (p[2] = q[2] + 1 \/ q[2] = p[2] + 1)
    \/ p[2] = q[2] /\ (p[1] = q[1] + 1 \/ q[1] = p[1] + 1)

\* the number of cardinal directions of cell p that a wall or the edge blocks
Blocked(m, p) ==
    Cardinality({d \in {<<0, -1>>, <<0, 1>>, <<1, 0>>, <<-1, 0>>} :
                    ~Traversable(m, p[1] + d[1], p[2] + d[2])})

Corridor == [grid |-> << <<"r", "g", "b">> >>, colors |-> {"r", "g", "b"}]

\* C1: every belief vector stored in the StepSequence has one entry per
\* state, only non-negative entries, and sums to 1; on a single-cell grid
\* every stored belief is [1].
C1_BeliefsNormalised ==
    \A k \in 1..Len(engine.steps) :
        /\ engine.steps[k].rows = engine.total_positions
        /\ engine.steps[k].cols = 1
        /\ \A s \in States : IsProbability(engine.steps[k].data[s][0])
        /\ VectorSum(engine.steps[k]) = One
        /\ engine.total_positions = 1 => engine.steps[k].data[0][0] = One

\* a second call, a backward pass over two observations, has smoothed a
\* sequence on a grid of several cells
C1_Witness ==
    /\ op = "backward"
    /\ raised = "none"
    /\ calls = 2
    /\ Len(engine.steps) = 3
    /\ engine.total_positions > 1
    /\ engine.steps[2] # engine.steps[1]

\* C2: after forward(obs) has returned, the StepSequence has |obs| + 1
\* entries and entry 0 gives 1 / total_positions to every state.
C2_ForwardLength ==
    (op = "forward" /\ raised = "none") =>
        /\ Len(engine.steps) = Len(readings) + 1
        /\ engine.steps[1].rows = count_positions(maze)
        /\ \A s \in 0..(count_positions(maze) - 1) :
              engine.steps[1].data[s][0] = Rat(1, count_positions(maze))

\* forward over two observations as the second call on an engine
C2_Witness ==
    /\ op = "forward"
    /\ raised = "none"
    /\ calls = 2
    /\ Len(readings) = 2
    /\ Len(engine.steps) = 3

\* C3: the StepSequence forward(obs) leaves is the one forward(obs) leaves
\* on a newly built engine, whatever calls were made before.
C3_ForwardStateless ==
    (op = "forward" /\ raised = "none") =>
        engine.steps = forward(HMM(maze), maze, readings).self.steps

\* forward over one observation as the second call, on a grid where the
\* observation changes the belief
C3_Witness ==
    /\ op = "forward"
    /\ raised = "none"
    /\ calls = 2
    /\ Len(readings) = 1
    /\ engine.steps[2] # engine.steps[1]

\* C4: a forward or backward call whose observation string holds a label
\* outside the colour alphabet raises an exception and leaves the engine
\* (StepSequence, transitions, emissions, initial distribution) as it was.
C4_InvalidLabelLeavesEngine ==
    [][ (op' \in {"forward", "backward"} /\ ~Valid(maze, readings'))
            => (raised' # "none" /\ engine' = engine) ]_vars

\* C5: the StepSequence backward(obs) leaves is the one backward(obs) leaves
\* on a newly built engine, whatever forward or backward calls were made
\* before.
C5_BackwardFresh ==
    (op = "backward" /\ raised = "none" /\ Valid(maze, readings)) =>
        engine.steps = backward(HMM(maze), maze, readings).self.steps

\* the backward vector b_k of the observations obs (already lower case) on
\* engine h: b_|obs| is all ones, b_(k-1) = transitions x (emission(obs_k) x b_k)
RECURSIVE BackwardVector(_, _, _)
BackwardVector(h, obs, k) ==
    IF k >= Len(obs) THEN ones(h.total_positions, 1)
    ELSE mul(h.transitions,
             mul(h.sensor_probabilities[obs[k + 1]], BackwardVector(h, obs, k + 1)))

\* the smoothed estimate at step k: normalize(f_k elementwise-times b_k)
Smoothed(m, obs, k) ==
    normalize(multiply(forward(HMM(m), m, obs).self.steps[k + 1],
                       BackwardVector(HMM(m), lower(obs), k)))

\* C6: after backward(obs) on an engine with no prior StepSequence, the
\* entry at every step k from |obs| down to and including 0 is
\* normalize(f_k elementwise-times b_k).
C6_EveryStepSmoothed ==
    (op = "backward" /\ raised = "none" /\ calls = 1) =>
        \A k \in 0..Len(readings) : engine.steps[k + 1] = Smoothed(maze, readings, k)

\* the entry the transition matrix is to hold at row n, column c: 1/4 for a
\* cardinal traversable neighbour, on the diagonal 1/4 for every direction a
\* wall or the edge blocks, 0 elsewhere
ExpectedTransition(m, n, c) ==
    IF n = c THEN Rat(Blocked(m, Cell(m, c)), 4)
    ELSE IF Adjacent(Cell(m, n), Cell(m, c)) THEN Rat(1, 4)
    ELSE Zero

\* C7: for every state c, column c of the transition matrix holds 1/4 at
\* each traversable cardinal neighbour, the stay-put mass of the blocked
\* directions on the diagonal, 0 elsewhere, and sums to 1; on the corridor
\* r g b the diagonal is 0.75, 0.5, 0.75.
C7_TransitionStructure ==
    /\ \A c \in States :
          /\ \A n \in States :
                engine.transitions.data[n][c] = ExpectedTransition(maze, n, c)
          /\ SumRange([n \in States |-> engine.transitions.data[n][c]],
                      0, engine.total_positions - 1) = One
    /\ maze = Corridor =>
          /\ engine.transitions.data[0][0] = Rat(3, 4)
          /\ engine.transitions.data[1][1] = Rat(1, 2)
          /\ engine.transitions.data[2][2] = Rat(3, 4)

\* the engine of the corridor after a call: the end cells keep 3/4, the
\* middle cell 1/2, and each passes 1/4 to its neighbour
C7_Witness ==
    /\ maze = Corridor
    /\ calls > 0
    /\ engine.transitions.data[0][0] = Rat(3, 4)
    /\ engine.transitions.data[1][1] = Rat(1, 2)
    /\ engine.transitions.data[1][0] = Rat(1, 4)
    /\ engine.transitions.data[2][0] = Zero

\* C8: the emission matrix of every colour c is diagonal, holds 0.88 at
\* the cells of colour c and 0.12 / (num_colors - 1) at every other cell,
\* and stays so through forward, backward and viterbi calls.
C8_EmissionStructure ==
    \A c \in maze.colors :
        \A i \in States, j \in States :
            engine.sensor_probabilities[c].data[i][j] =
                IF i # j THEN Zero
                ELSE IF get_char(maze, Cell(maze, i)[1], Cell(maze, i)[2]) = c
                     THEN Rat(88, 100)
                     ELSE RDiv(Rat(12, 100), Rat(Cardinality(maze.colors) - 1, 1))

\* the engine of the three-colour corridor after two calls: the red matrix
\* holds 0.88 at the red cell and 0.06 at the others
C8_Witness ==
    /\ maze = Corridor
    /\ calls = 2
    /\ engine.sensor_probabilities["r"].data[0][0] = Rat(22, 25)
    /\ engine.sensor_probabilities["r"].data[1][1] = Rat(3, 50)
    /\ engine.sensor_probabilities["r"].data[0][1] = Zero

\* the lowest index among the largest entries of the row d
ArgmaxFirst(d) ==
    CHOOSE p \in DOMAIN d :
        /\ \A q \in DOMAIN d : ~RLess(d[p], d[q])
        /\ \A q \in DOMAIN d : q < p => RLess(d[q], d[p])

\* delta_0(s) = initial_distribution[s] * transitions[s, s]
InitialDelta(h) ==
    [s \in 0..(h.total_positions - 1) |->
        RMul(h.position_distribution.data[s][0], h.transitions.data[s][s])]

\* the recursion of the decoding without any rescaling: the best
\* predecessor of curr and delta_t(curr)
BestPredecessor(h, d, curr) ==
    ArgmaxFirst([prev \in DOMAIN d |-> RMul(d[prev], h.transitions.data[prev][curr])])

RECURSIVE DeltaRow(_, _, _)
DeltaRow(h, obs, t) ==
    IF t = 0 THEN InitialDelta(h)
    ELSE CHOOSE r \in
            {[curr \in DOMAIN d |->
                RMul(RMul(d[BestPredecessor(h, d, curr)],
                          h.transitions.data[BestPredecessor(h, d, curr)][curr]),
                     h.sensor_probabilities[obs[t + 1]].data[curr][curr])] :
                d \in {DeltaRow(h, obs, t - 1)}} : TRUE

RECURSIVE PathState(_, _, _)
PathState(h, obs, t) ==
    IF t = Len(obs) - 1 THEN ArgmaxFirst(DeltaRow(h, obs, t))
    ELSE BestPredecessor(h, DeltaRow(h, obs, t), PathState(h, obs, t + 1))

DynamicProgramPath(h, obs) == [k \in 1..Len(obs) |-> PathState(h, obs, k - 1)]

\* C9: viterbi(obs) returns the path of the dynamic program delta_0(s) =
\* initial[s] * transitions[s, s], delta_t(curr) = max over prev of
\* delta_(t-1)(prev) * transitions[prev, curr], times emission(obs_t)[curr],
\* ties going to the lowest index, read back from the best final state.
C9_ViterbiDynamicProgram ==
    (op = "viterbi" /\ raised = "none" /\ Valid(maze, readings)) =>
        returned = DynamicProgramPath(engine, lower(readings))

\* C10: viterbi over a single observation returns the one-element path
\* holding the lowest index that maximises initial[s] * transitions[s, s],
\* whatever the label is; on the corridor r g b, viterbi("R") returns [0].
C10_SingleObservation ==
    (op = "viterbi" /\ Len(readings) = 1) =>
        /\ raised = "none"
        /\ returned = <<ArgmaxFirst(InitialDelta(engine))>>
        /\ (maze = Corridor /\ readings = <<"R">>) => returned = <<0>>

\* viterbi("R") on the corridor has returned [0]
C10_Witness ==
    /\ maze = Corridor
    /\ op = "viterbi"
    /\ readings = <<"R">>
    /\ raised = "none"
    /\ returned = <<0>>

\* every entry of the table is a number (not NaN, not infinite)
Finite(table) ==
    \A i \in 0..(table.rows - 1), j \in 0..(table.cols - 1) : table.data[i][j][2] > 0

\* the sum of the column (axis 0) or the row (axis 1) that holds cell [i, j]
LineSum(table, axis, i, j) ==
    IF axis = 0
    THEN SumRange([k \in 0..(table.rows - 1) |-> table.data[k][j]], 0, table.rows - 1)
    ELSE SumRange([k \in 0..(table.cols - 1) |-> table.data[i][k]], 0, table.cols - 1)

Cells(table) == (0..(table.rows - 1)) \X (0..(table.cols - 1))

\* the call a step of the program has just applied
Applied(c) == history' = Append(history, c)

\* the step normalises object c.self along axis c.argument: the object keeps
\* its shape and, when no sum along the axis is zero, every entry is the old
\* entry over the sum of its line and every line sums to 1
NormalizeStep(c) ==
    /\ heap'.matrices[c.self].rows = heap.matrices[c.self].rows
    /\ heap'.matrices[c.self].cols = heap.matrices[c.self].cols
    /\ Value(heap', c.self).rows = Value(heap, c.self).rows
    /\ Value(heap', c.self).cols = Value(heap, c.self).cols
    /\ ( /\ Finite(Value(heap, c.self))
         /\ \A p \in Cells(Value(heap, c.self)) :
               LineSum(Value(heap, c.self), c.argument, p[1], p[2]) # Zero )
       => \A p \in Cells(Value(heap, c.self)) :
             /\ Value(heap', c.self).data[p[1]][p[2]] =
                    RDiv(Value(heap, c.self).data[p[1]][p[2]],
                         LineSum(Value(heap, c.self), c.argument, p[1], p[2]))
             /\ LineSum(Value(heap', c.self), c.argument, p[1], p[2]) = One

\* the step leaves every object that existed before it as it was
OperandsKept ==
    \A m \in Objects :
        /\ Value(heap', m) = Value(heap, m)
        /\ heap'.matrices[m].rows = heap.matrices[m].rows
        /\ heap'.matrices[m].cols = heap.matrices[m].cols

\* C11: Matrix.normalize(M, axis) changes M itself and keeps its shape; when
\* no sum along the axis is zero, afterwards every column (axis 0) or row
\* (axis 1) of M sums to 1 and each entry is its old value over the sum of
\* its column or row.  add, sub, mul, elementwise multiply, transpose and
\* power leave their operands unchanged.
C11_NormalizeInPlaceOthersPure ==
    [][ \A c \in {history'[k] : k \in {Len(history')} \ {0}} :
          Applied(c) =>
            /\ c.op = "normalize" => NormalizeStep(c)
            /\ c.op \in {"add", "sub", "mul", "multiply", "transpose", "pow"}
                  => OperandsKept ]_vars

\* after an addition, the rows of the 2 x 2 matrix 1 2 / 3 4 have been
\* normalised (axis 1) to 1/3 2/3 and 3/7 4/7
C11_Witness ==
    /\ Len(history) = 2
    /\ history[1].op = "add"
    /\ history[1].raised = "none"
    /\ history[2].op = "normalize"
    /\ history[2].self = 1
    /\ history[2].argument = 1
    /\ Value(heap, 1).rows = 2
    /\ Value(heap, 1).cols = 2
    /\ Value(heap, 1).data[0][0] = Rat(1, 3)
    /\ Value(heap, 1).data[1][0] = Rat(3, 7)
    /\ Value(heap, 2).data[1][0] = Rat(6, 1)

\* the table with the rows and columns of the given one swapped
Swapped(table) ==
    Matrix(table.cols, table.rows,
           [i \in 0..(table.cols - 1) |-> [j \in 0..(table.rows - 1) |-> table.data[j][i]]])

\* the object a transpose call of the history returned
TransposeOf(t, m) ==
    \E k \in 1..Len(history) :
        history[k].op = "transpose" /\ history[k].result = t /\ history[k].self = m

\* C12: M.transpose() has the rows and columns of M swapped and
\* M.transpose().transpose() has the shape and entries of M; computing a
\* transpose does not change M, nor does a later index assignment into the
\* matrix it returned.
C12_TransposeRoundTrip ==
    [][ \A c \in {history'[k] : k \in {Len(history')} \ {0}} :
          Applied(c) =>
            /\ c.op = "transpose" =>
                  /\ Value(heap', c.result) = Swapped(Value(heap, c.self))
                  /\ shape(heap', c.result) = <<shape(heap, c.self)[2], shape(heap, c.self)[1]>>
                  /\ OperandsKept
                  /\ \A m \in Objects :
                        TransposeOf(c.self, m) /\ Value(heap, c.self) = Swapped(Value(heap, m))
                            => /\ Value(heap', c.result) = Value(heap', m)
                               /\ shape(heap', c.result) = shape(heap', m)
            /\ c.op = "setitem" =>
                  \A m \in Objects \ {c.self} :
                      TransposeOf(c.self, m) => Value(heap', m) = Value(heap, m) ]_vars

\* the 2 x 3 matrix 1 2 3 / 4 5 6 has been transposed twice
C12_Witness ==
    /\ Len(history) = 2
    /\ history[1].op = "transpose"
    /\ history[1].self = 1
    /\ history[2].op = "transpose"
    /\ history[2].self = history[1].result
    /\ Value(heap, 1).cols = 3
    /\ Value(heap, 2).rows = 3
    /\ Value(heap, 2).data[2][0] = Rat(3, 1)
    /\ Value(heap, 3) = Value(heap, 1)

\* P(observing colour c | the robot is in state s): 0.88 for the colour of
\* the cell, the rest shared equally among the other colours
ObservationProbability(m, c, s) ==
    IF get_char(m, Cell(m, s)[1], Cell(m, s)[2]) = c THEN Rat(88, 100)
    ELSE RDiv(Rat(12, 100), Rat(Cardinality(m.colors) - 1, 1))

\* P(p -> s): the probability the builder gives to the move from cell p to
\* cell s (column p of the transition matrix describes leaving p)
MoveProbability(m, p, s) == ExpectedTransition(m, s, p)

\* P(obs | s) x sum over p of P(p -> s) x belief[p], before normalisation
Predicted(m, belief, c) ==
    [s \in 0..(belief.rows - 1) |->
        RMul(ObservationProbability(m, c, s),
             SumRange([p \in 0..(belief.rows - 1) |->
                          RMul(MoveProbability(m, p, s), belief.data[p][0])],
                      0, belief.rows - 1))]

\* C13: for t >= 1 the belief forward stores at step t is the normalisation
\* over states s of P(obs_t | s) x sum over p of P(p -> s) x belief_(t-1)[p],
\* with P(p -> s) the builder's probability of the move from p to s: the
\* prediction with the transposed transition matrix is the standard one.
C13_FilteringRecursion ==
    (op = "forward" /\ raised = "none") =>
        \A t \in 1..Len(readings) :
            \A s \in States :
                engine.steps[t + 1].data[s][0] =
                    RDiv(Predicted(maze, engine.steps[t], Lower(readings[t]))[s],
                         SumRange(Predicted(maze, engine.steps[t], Lower(readings[t])),
                                  0, engine.total_positions - 1))

\* forward("RG") on the corridor: two steps of the recursion from beliefs
\* that are not uniform
C13_Witness ==
    /\ maze = Corridor
    /\ op = "forward"
    /\ raised = "none"
    /\ readings = <<"R", "G">>
    /\ engine.steps[2].data[0][0] = Rat(22, 25)
    /\ engine.steps[3].data[1][0] = Rat(2332, 2773)

\* C14: every renormalisation inside forward, backward and viterbi divides
\* by a strictly positive sum, so no stored belief and no entry of the
\* Viterbi delta table is non-finite (observation strings over the colour
\* alphabet).
C14_NoZeroSum ==
    /\ \A k \in 1..Len(engine.steps) : Finite(engine.steps[k])
    /\ (op = "viterbi" /\ raised = "none" /\ Valid(maze, readings))
          => Finite(viterbi(engine, maze, readings).delta)

\* C15: for an observation string of length >= 2 over the colour alphabet
\* the path viterbi returns is a feasible walk: every element is a state
\* index and every consecutive pair has a positive transition probability,
\* so the two states are the same cell or cardinally adjacent cells.
C15_FeasibleWalk ==
    (op = "viterbi" /\ raised = "none" /\ Valid(maze, readings) /\ Len(readings) >= 2) =>
        /\ Len(returned) = Len(readings)
        /\ \A k \in 1..Len(returned) : returned[k] \in States
        /\ \A k \in 2..Len(returned) :
              /\ RLess(Zero, engine.transitions.data[returned[k - 1]][returned[k]])
              /\ \/ returned[k - 1] = returned[k]
                 \/ Adjacent(Cell(maze, returned[k - 1]), Cell(maze, returned[k]))

\* viterbi("RG") on the T-shaped grid has returned a path that moves from
\* cell 3 to its neighbour 2
C15_Witness ==
    /\ op = "viterbi"
    /\ raised = "none"
    /\ readings = <<"R", "G">>
    /\ returned = <<3, 2>>

\* the states reached from the set S in at most k steps
RECURSIVE Within(_, _, _)
Within(problem, S, k) ==
    IF k = 0 THEN S
    ELSE Within(problem, S, k - 1) \cup
         UNION {problem.successors[s] : s \in Within(problem, S, k - 1)}

StateCount(problem) == Cardinality(DOMAIN problem.successors)

\* a goal state can be reached from s
GoalReachable(problem, s) ==
    Within(problem, {s}, StateCount(problem)) \cap problem.goals # {}

\* the least number of steps from s to a goal state (a goal is reachable)
StepsToGoal(problem, s) ==
    CHOOSE k \in 0..StateCount(problem) :
        /\ Within(problem, {s}, k) \cap problem.goals # {}
        /\ \A j \in 0..(k - 1) : Within(problem, {s}, j) \cap problem.goals = {}

\* the heuristic never overestimates the remaining number of steps
Admissible(problem, h) ==
    \A s \in DOMAIN problem.successors :
        GoalReachable(problem, s) => h[s] <= StepsToGoal(problem, s)

\* h(s) > 1 + h(s') for some step s -> s': the heuristic is not consistent
Inconsistent(problem, h) ==
    \E s \in DOMAIN problem.successors :
        \E next \in problem.successors[s] : h[s] > 1 + h[next]

\* C16: when a goal state is reachable from the start state and the
\* heuristic never overestimates the remaining number of steps, consistent
\* or not, astar_search returns a path that begins at the start state, ends
\* at a goal state, moves along get_successors steps only, and whose cost
\* is len(path) - 1 and the least number of steps from the start to a goal.
C16_OptimalPath ==
    ( /\ pc = "done"
      /\ GoalReachable(search_problem, search_problem.start_state)
      /\ Admissible(search_problem, heuristic_fn) )
    => /\ Len(solution.path) >= 1
       /\ solution.path[1] = search_problem.start_state
       /\ solution.path[Len(solution.path)] \in search_problem.goals
       /\ \A k \in 1..(Len(solution.path) - 1) :
             solution.path[k + 1] \in search_problem.successors[solution.path[k]]
       /\ solution.cost = Len(solution.path) - 1
       /\ solution.cost = StepsToGoal(search_problem, search_problem.start_state)

\* the search has returned the three-step path 0 1 4 5 under an admissible
\* heuristic that is not consistent (h(1) = 2, h(4) = 0), after state 4 was
\* first reached over the longer route through 2 and 3
C16_Witness ==
    /\ pc = "done"
    /\ StateCount(search_problem) = 6
    /\ heuristic_fn = [s \in 0..5 |-> IF s = 1 THEN 2 ELSE 0]
    /\ Admissible(search_problem, heuristic_fn)
    /\ Inconsistent(search_problem, heuristic_fn)
    /\ solution.path = <<0, 1, 4, 5>>
    /\ solution.cost = 3
    /\ visited_cost[3] = 2

\* every node a step pushes strictly lowers the recorded cost of its state
PushLowers ==
    \A n \in queue' \ queue :
        /\ GetCost(visited_cost', n.state) < GetCost(visited_cost, n.state)
        /\ GetCost(visited_cost', n.state) = n.transition_cost

\* a popped node whose cost differs from the recorded cost of its state is
\* dropped: nothing is pushed, recorded or counted
SkipLeaves ==
    \A n \in queue \ queue' :
        visited_cost[n.state] # n.transition_cost =>
            /\ queue' = queue \ {n}
            /\ visited_cost' = visited_cost
            /\ solution' = solution
            /\ pc' = pc

\* C17: astar_search terminates on a finite state space; each push strictly
\* lowers the recorded visited cost of a state; a popped node whose cost
\* differs from the recorded cost of its state is skipped, neither expanded
\* nor counted in nodes_visited; when no goal state is reachable the search
\* ends with an empty frontier and a solution without a path.
C17_Terminates ==
    /\ <>(pc = "done")
    /\ [][PushLowers /\ SkipLeaves]_vars
    /\ [](( /\ pc = "done"
            /\ ~GoalReachable(search_problem, search_problem.start_state) )
          => (queue = {} /\ solution.path = << >>))

\* a search on the ring, whose goal cannot be reached, has ended with an
\* empty frontier after visiting its three reachable states
C17_Witness ==
    /\ pc = "done"
    /\ ~GoalReachable(search_problem, search_problem.start_state)
    /\ queue = {}
    /\ solution.path = << >>
    /\ solution.nodes_visited = 3
    /\ DOMAIN visited_cost = {0, 1, 2}
====
